---- MODULE Spec2Model ----
(***************************************************************************)
(* UMI clustering of wf-single-cell (bin/cluster_umis.py).                 *)
(*                                                                         *)
(* Spec        : cluster() and create_map_to_correct_umi applied to one    *)
(*               UMI count map, function by function.                      *)
(* SpecRecords : process_records from the input tables to the outputs,     *)
(*               with the worker pool of launch_pool.                      *)
(***************************************************************************)
EXTENDS Integers, Sequences, FiniteSets, TLC

(***************************************************************************)
(* Bounds of the model.                                                    *)
(***************************************************************************)
\* largest number of reads carrying the same UMI in one count map
MaxCount == 3

\* UMI sequences are tuples of bases.  The universe has neighbours at
\* Levenshtein distance 1, 2, 3 (one of them through a deletion) and pairs
\* further apart than either threshold in use.
UMI_AAAAA == <<"A", "A", "A", "A", "A">>
UMI_AAAAT == <<"A", "A", "A", "A", "T">>
UMI_AATTT == <<"A", "A", "T", "T", "T">>
UMI_TTTT == <<"T", "T", "T", "T">>
UmiUniverse == {UMI_AAAAA, UMI_AAAAT, UMI_AATTT, UMI_TTTT}

\* thresholds in use: get_adj_list_directional defaults to 2, cluster to 3
Thresholds == {2, 3}

(***************************************************************************)
(* Helpers on sequences and sets.                                          *)
(***************************************************************************)
Min2(a, b) == IF a <= b THEN a ELSE b

Range(s) == {s[i] : i \in DOMAIN s}

\* every order in which the elements of a finite set can be enumerated
Orders(S) ==
    {s \in [1..Cardinality(S) -> S] : \A i, j \in DOMAIN s : i # j => s[i] # s[j]}

(***************************************************************************)
(* editdistance.eval: Levenshtein distance (insert, delete, substitute).   *)
(***************************************************************************)
RECURSIVE Levenshtein(_, _)
Levenshtein(a, b) ==
    IF a = <<>> THEN Len(b)
    ELSE IF b = <<>> THEN Len(a)
    ELSE IF Head(a) = Head(b) THEN Levenshtein(Tail(a), Tail(b))
    ELSE 1 + Min2(Levenshtein(Tail(a), b),
                  Min2(Levenshtein(a, Tail(b)), Levenshtein(Tail(a), Tail(b))))

\* the distance of every pair of UMIs of the universe, tabulated
DistanceTable ==
    {<<u, v, Levenshtein(u, v)>> : u \in UmiUniverse, v \in UmiUniverse}

edit_distance(u, v) ==
    (CHOOSE t \in DistanceTable : t[1] = u /\ t[2] = v)[3]

\* the enumeration orders of every set of UMIs, tabulated
UmiOrders == {<<S, Orders(S)>> : S \in SUBSET UmiUniverse}

Perms(S) == (CHOOSE t \in UmiOrders : t[1] = S)[2]

(***************************************************************************)
(* sorted(xs, key=lambda x: counts[x], reverse=True): stable, so elements  *)
(* of equal count keep the order they have in xs.                          *)
(***************************************************************************)
RECURSIVE SortedByCountDesc(_, _)
SortedByCountDesc(xs, counts) ==
    IF xs = <<>> THEN <<>>
    ELSE LET i == CHOOSE k \in DOMAIN xs :
                    /\ \A j \in DOMAIN xs : counts[xs[k]] >= counts[xs[j]]
                    /\ \A j \in 1..(k - 1) : counts[xs[j]] < counts[xs[k]]
             rest == SubSeq(xs, 1, i - 1) \o SubSeq(xs, i + 1, Len(xs))
         IN <<xs[i]>> \o SortedByCountDesc(rest, counts)

(***************************************************************************)
(* get_adj_list_directional(umis, counts, threshold)                       *)
(* adj_list maps every UMI to the list of its neighbours.  The pairs of    *)
(* itertools.combinations(umis, 2) are visited in order: (i, j), i < j.    *)
(***************************************************************************)
\* faulty variant: admits the edge only for a strictly larger count skew
EdgeRuleStrict(counts, u, v) == counts[u] > (counts[v] * 2) - 1

\* faulty variant: the two counts of the rule are exchanged
EdgeRuleReversed(counts, u, v) == counts[v] >= (counts[u] * 2) - 1

EdgeRule(counts, u, v) == counts[u] >= (counts[v] * 2) - 1

\* the neighbours appended to adj_list[umis[i]], in the order of appending:
\* pair (j, i) with j < i appends umis[j] in its second test, pair (i, j)
\* with i < j appends umis[j] in its first test; pairs come in
\* lexicographic order of positions, so the neighbours come in order of j.
Neighbours(umis, counts, threshold, i) ==
    LET Near(j) == /\ j # i
                   /\ edit_distance(umis[i], umis[j]) <= threshold
                   /\ EdgeRule(counts, umis[i], umis[j])
        idx == SelectSeq([j \in 1..Len(umis) |-> j], Near)
    IN [k \in DOMAIN idx |-> umis[idx[k]]]

GetAdjListDirectional(umis, counts, threshold) ==
    [u \in Range(umis) |->
        LET i == CHOOSE k \in DOMAIN umis : umis[k] = u
        IN Neighbours(umis, counts, threshold, i)]

(***************************************************************************)
(* breadth_first_search(node, adj_list)                                    *)
(* queue and searched are Python sets; queue.pop() removes an arbitrary    *)
(* element.  BfsOutcomes is the set of values of `searched` over all the   *)
(* orders in which the queue can be popped.                                *)
(***************************************************************************)
RECURSIVE BfsOutcomes(_, _, _)
BfsOutcomes(queue, searched, adj_list) ==
    IF queue = {} THEN {searched}
    ELSE UNION {
        LET new == {x \in Range(adj_list[node]) : x \notin searched}
        IN BfsOutcomes((queue \ {node}) \cup new, searched \cup new, adj_list)
        : node \in queue}

\* faulty variant: follows the edges in both directions
BreadthFirstSearchUndirected(node, adj_list) ==
    LET Closed(S) ==
            \A u \in S : \A v \in DOMAIN adj_list :
                (v \in Range(adj_list[u]) \/ u \in Range(adj_list[v])) => v \in S
    IN {CHOOSE S \in SUBSET (DOMAIN adj_list) :
            /\ node \in S
            /\ Closed(S)
            /\ \A T \in SUBSET (DOMAIN adj_list) :
                  (node \in T /\ Closed(T)) => S \subseteq T}

\* faulty variant: stops at the neighbours of the start node
BreadthFirstSearchDirect(node, adj_list) ==
    {{node} \cup Range(adj_list[node])}

BreadthFirstSearch(node, adj_list) == BfsOutcomes({node}, {node}, adj_list)

(***************************************************************************)
(* get_connected_components_adjacency(umis, graph, counts)                 *)
(* graph is the adjacency dict; iterating it yields its keys in insertion  *)
(* order, which is the order of umis.                                      *)
(***************************************************************************)
\* faulty variant: starts a traversal from every node, found or not
RECURSIVE ComponentsLoopAll(_, _, _, _)
ComponentsLoopAll(nodes, found, components, graph) ==
    IF nodes = <<>> THEN {components}
    ELSE UNION {
        ComponentsLoopAll(Tail(nodes), found \cup component,
                          Append(components, component), graph)
        : component \in BreadthFirstSearch(Head(nodes), graph)}

RECURSIVE ComponentsLoop(_, _, _, _)
ComponentsLoop(nodes, found, components, graph) ==
    IF nodes = <<>> THEN {components}
    ELSE IF Head(nodes) \in found
         THEN ComponentsLoop(Tail(nodes), found, components, graph)
         ELSE UNION {
             ComponentsLoop(Tail(nodes), found \cup component,
                            Append(components, component), graph)
             : component \in BreadthFirstSearch(Head(nodes), graph)}

GetConnectedComponentsAdjacency(umis, graph, counts) ==
    ComponentsLoop(SortedByCountDesc(umis, counts), {}, <<>>, graph)

(***************************************************************************)
(* group_directional(clusters, adj_list, counts)                           *)
(* Every cluster is a Python set: list(cluster) and sorted(cluster, ...)   *)
(* enumerate it in an order the language does not fix (string hashing is   *)
(* randomised per process), so every enumeration order is an outcome.      *)
(***************************************************************************)
\* faulty variant: does not remove the nodes already observed
KeepAll(sorted, observed) == sorted

\* lines 230-234: the nodes of the sorted cluster not yet observed
Unobserved(sorted, observed) ==
    SelectSeq(sorted, LAMBDA node : node \notin observed)

RECURSIVE GroupLoop(_, _, _, _)
GroupLoop(clusters, observed, groups, counts) ==
    IF clusters = <<>> THEN {groups}
    ELSE LET cluster == Head(clusters) IN
         IF Cardinality(cluster) = 1
         THEN UNION {
             GroupLoop(Tail(clusters), observed \cup cluster,
                       Append(groups, listed), counts)
             : listed \in Perms(cluster)}
         ELSE UNION {
             LET sorted == SortedByCountDesc(iterated, counts)
                 temp_cluster == Unobserved(sorted, observed)
             IN GroupLoop(Tail(clusters), observed \cup Range(temp_cluster),
                          Append(groups, temp_cluster), counts)
             : iterated \in Perms(cluster)}

GroupDirectional(clusters, adj_list, counts) ==
    GroupLoop(clusters, {}, <<>>, counts)

(***************************************************************************)
(* cluster(counts_dict, threshold): the set of values it can return.       *)
(* counts_dict is given as its key order (umis) and its values (counts).   *)
(***************************************************************************)
Cluster(umis, counts, threshold) ==
    LET adj == GetAdjListDirectional(umis, counts, threshold)
    IN UNION {GroupDirectional(clusters, adj, counts)
              : clusters \in GetConnectedComponentsAdjacency(umis, adj, counts)}

(***************************************************************************)
(* create_map_to_correct_umi(cluster_list)                                 *)
(* {y: x[0] for x in cluster_list for y in x}: a key met again takes the   *)
(* value of the last cluster that holds it.                                *)
(***************************************************************************)
\* faulty variant: key and value of the comprehension are exchanged
CreateMapSwapped(cluster_list) ==
    LET keys == {cluster_list[i][1] : i \in DOMAIN cluster_list}
    IN [x \in keys |->
          LET last == CHOOSE i \in DOMAIN cluster_list :
                        /\ cluster_list[i][1] = x
                        /\ \A j \in DOMAIN cluster_list :
                              cluster_list[j][1] = x => j <= i
          IN cluster_list[last][Len(cluster_list[last])]]

\* faulty variant: takes the last member of the cluster as representative
CreateMapLast(cluster_list) ==
    LET keys == UNION {Range(cluster_list[i]) : i \in DOMAIN cluster_list}
    IN [y \in keys |->
          LET last == CHOOSE i \in DOMAIN cluster_list :
                        /\ y \in Range(cluster_list[i])
                        /\ \A j \in DOMAIN cluster_list :
                              y \in Range(cluster_list[j]) => j <= i
          IN cluster_list[last][Len(cluster_list[last])]]

CreateMapToCorrectUmi(cluster_list) ==
    LET keys == UNION {Range(cluster_list[i]) : i \in DOMAIN cluster_list}
    IN [y \in keys |->
          LET last == CHOOSE i \in DOMAIN cluster_list :
                        /\ y \in Range(cluster_list[i])
                        /\ \A j \in DOMAIN cluster_list :
                              y \in Range(cluster_list[j]) => j <= i
          IN cluster_list[last][1]]

(***************************************************************************)
(* correct_umis(umis)                                                      *)
(* umis is the column of raw UMIs of one group.  value_counts gives the    *)
(* count map, keys in descending order of count; pandas fixes no order     *)
(* among keys of equal count.  The result replaces every raw UMI by its    *)
(* representative.                                                         *)
(***************************************************************************)
ValueCounts(column) ==
    [u \in Range(column) |-> Cardinality({k \in DOMAIN column : column[k] = u})]

\* sum of cnt over the keys of S
RECURSIVE SumCounts(_, _)
SumCounts(cnt, S) ==
    IF S = {} THEN 0
    ELSE LET u == CHOOSE x \in S : TRUE
         IN cnt[u] + SumCounts(cnt, S \ {u})

\* correct_umis, line 265 then line 263 of the next call: the counts of the
\* column umis.replace(umi_map), for a column whose counts are cnt
ReplacedCounts(cnt, umi_map) ==
    [x \in {umi_map[u] : u \in DOMAIN cnt} |->
        SumCounts(cnt, {u \in DOMAIN cnt : umi_map[u] = x})]

ValueCountOrders(cnt) ==
    {s \in Perms(DOMAIN cnt) :
        \A i, j \in DOMAIN s : i < j => cnt[s[i]] >= cnt[s[j]]}

\* threshold of cluster() when correct_umis calls it without one
ClusterThreshold == 3

\* every correction map correct_umis can build for a column of raw UMIs
UmiMaps(column) ==
    LET counts_dict == ValueCounts(column)
    IN {CreateMapToCorrectUmi(final) :
          final \in UNION {Cluster(keys, counts_dict, ClusterThreshold)
                           : keys \in ValueCountOrders(counts_dict)}}

(***************************************************************************)
(* create_region_name(read, args)                                          *)
(* int((start + end) / 2), np.floor and np.ceil on positions >= 0.         *)
(***************************************************************************)
\* default of --ref_interval
RefInterval == 1000

\* line 349: int((start_pos + end_pos) / 2), positions being non-negative
Midpoint(read) == (read.start + read.end) \div 2

\* line 352: np.floor(midpoint / ref_interval) * ref_interval
IntervalStart(midpoint, ref_interval) ==
    (midpoint \div ref_interval) * ref_interval

\* line 353: np.ceil(midpoint / ref_interval) * ref_interval
IntervalEnd(midpoint, ref_interval) ==
    ((midpoint + ref_interval - 1) \div ref_interval) * ref_interval

\* line 356: f"{chrom}_{int(interval_start)}_{int(interval_end)}"
RegionLabel(chrom, interval_start, interval_end) ==
    chrom \o "_" \o ToString(interval_start) \o "_" \o ToString(interval_end)

CreateRegionName(read, ref_interval) ==
    RegionLabel(read.chr,
                IntervalStart(Midpoint(read), ref_interval),
                IntervalEnd(Midpoint(read), ref_interval))

(***************************************************************************)
(* chunks(lst, n): lst[0:n], lst[n:2n], ...                                *)
(***************************************************************************)
Chunks(lst, n) ==
    [k \in 1..((Len(lst) + n - 1) \div n) |->
        SubSeq(lst, (k - 1) * n + 1, Min2(k * n, Len(lst)))]

(***************************************************************************)
(* process_records, lines 427-435: the inner join of the three tables on   *)
(* read_id.  A row is a read that has a row in each of the tables; rows    *)
(* keep the order of gene_assigns.                                         *)
(***************************************************************************)
MergeTables(gene_rows, transcript_rows, tag_rows) ==
    LET joined == SelectSeq(gene_rows,
                      LAMBDA g : /\ g.read_id \in DOMAIN transcript_rows
                                 /\ g.read_id \in DOMAIN tag_rows)
    IN [k \in DOMAIN joined |->
          LET id == joined[k].read_id
          IN [read_id |-> id, gene |-> joined[k].gene,
              ref_id |-> transcript_rows[id],
              CB |-> tag_rows[id].CB, UR |-> tag_rows[id].UR,
              chr |-> tag_rows[id].chr, start |-> tag_rows[id].start,
              end |-> tag_rows[id].end]]

(***************************************************************************)
(* process_records, lines 437-464: the loop over the joined rows.          *)
(***************************************************************************)
CounterGet(counter, key) == IF key \in DOMAIN counter THEN counter[key] ELSE 0

CounterAdd(counter, key) ==
    [k \in DOMAIN counter \cup {key} |->
        IF k = key THEN CounterGet(counter, key) + 1 ELSE counter[k]]

\* faulty variant: compares with < and so retains one read less
UnderCapStrict(seen, cap) == seen < cap

\* faulty variant: the cap is not enforced
UnderCapIgnored(seen, cap) == TRUE

UnderCap(seen, cap) == seen <= cap

GeneOfRow(row) ==
    IF row.gene = "NA" THEN CreateRegionName(row, RefInterval) ELSE row.gene

RECURSIVE RecordsLoop(_, _, _, _, _)
RecordsLoop(rows, transcript_table, cell_gene_counter, records, cap) ==
    IF rows = <<>> THEN records
    ELSE LET row == Head(rows)
             read_id == row.read_id
             bc_corr == row.CB
             umi_uncorr == row.UR
             transcript == IF transcript_table.type # "NoneType"
                           THEN transcript_table.ref_id[read_id] ELSE "-"
             gene == GeneOfRow(row)
             counter == CounterAdd(cell_gene_counter, <<bc_corr, gene>>)
         IN RecordsLoop(Tail(rows), transcript_table, counter,
                IF UnderCap(counter[<<bc_corr, gene>>], cap)
                THEN Append(records,
                        [read_id |-> read_id, gene |-> gene,
                         transcript |-> transcript, bc |-> bc_corr,
                         umi_uncorr |-> umi_uncorr])
                ELSE records,
                cap)

(***************************************************************************)
(* process_records, lines 472-481: the frame indexed by gene_cell and the  *)
(* frames handed to the workers, df.loc[gene_cell_chunk]: for every key of *)
(* the chunk in turn, the rows of that key in frame order.                 *)
(***************************************************************************)
GeneCellOf(rec) == rec.gene \o ":" \o rec.bc

WithGeneCell(records) ==
    [k \in DOMAIN records |->
        [gene_cell |-> GeneCellOf(records[k]),
         read_id |-> records[k].read_id, gene |-> records[k].gene,
         transcript |-> records[k].transcript, bc |-> records[k].bc,
         umi_uncorr |-> records[k].umi_uncorr]]

RECURSIVE Loc(_, _)
Loc(df, keys) ==
    IF keys = <<>> THEN <<>>
    ELSE SelectSeq(df, LAMBDA r : r.gene_cell = Head(keys)) \o Loc(df, Tail(keys))

FuncArgs(df, gene_cell_unique, gene_cell_per_chunk) ==
    LET gene_cell_chunks == Chunks(gene_cell_unique, gene_cell_per_chunk)
    IN [i \in DOMAIN gene_cell_chunks |-> Loc(df, gene_cell_chunks[i])]

(***************************************************************************)
(* run_groupby(df): every value it can return.  groupby("gene_cell")       *)
(* hands the umi_uncorr column of every group to correct_umis, and         *)
(* transform writes the result back to the rows of that group.             *)
(***************************************************************************)
GroupColumn(df, key) ==
    LET rows == SelectSeq(df, LAMBDA r : r.gene_cell = key)
    IN [k \in DOMAIN rows |-> rows[k].umi_uncorr]

RunGroupby(df) ==
    LET keys == {df[k].gene_cell : k \in DOMAIN df}
        maps == [key \in keys |-> UmiMaps(GroupColumn(df, key))]
        choices == {c \in [keys -> UNION {maps[key] : key \in keys}] :
                        \A key \in keys : c[key] \in maps[key]}
    IN {[k \in DOMAIN df |->
            [gene_cell |-> df[k].gene_cell,
             read_id |-> df[k].read_id, gene |-> df[k].gene,
             transcript |-> df[k].transcript, bc |-> df[k].bc,
             umi_uncorr |-> df[k].umi_uncorr,
             umi_corr |-> c[df[k].gene_cell][df[k].umi_uncorr]]]
        : c \in choices}

(***************************************************************************)
(* launch_pool(func, func_args, procs), lines 383-391.                     *)
(* `results` is bound by line 385 only; a KeyboardInterrupt before that    *)
(* line has completed reaches `return results` with the name unbound.      *)
(***************************************************************************)
\* faulty variant: returns the results collected so far
LaunchPoolReturnPartial(bound, collected) ==
    [error |-> "none", results |-> collected]

LaunchPoolReturn(bound, collected) ==
    IF bound THEN [error |-> "none", results |-> collected]
    ELSE [error |-> "UnboundLocalError", results |-> <<>>]

(***************************************************************************)
(* process_records, lines 484-504: the merged frame and the lookups.       *)
(***************************************************************************)
RECURSIVE Concat(_)
Concat(frames) ==
    IF frames = <<>> THEN <<>> ELSE Head(frames) \o Concat(Tail(frames))

ConcatColumns ==
    {"read_id", "gene", "transcript", "bc", "umi_uncorr", "umi_corr"}

\* columns of the empty frame of lines 487-493
EmptyFrameColumns == {"read_id", "gene", "bc", "umi_uncorr", "umi_corr"}

MergedColumns(results) ==
    IF Len(results) > 0 THEN ConcatColumns ELSE EmptyFrameColumns

\* df.to_dict()[column] of the frame indexed by read_id: the last row of a
\* read_id gives its value
ToDict(df, column) ==
    [id \in {df[k].read_id : k \in DOMAIN df} |->
        LET last == CHOOSE k \in DOMAIN df :
                      /\ df[k].read_id = id
                      /\ \A j \in DOMAIN df : df[j].read_id = id => j <= k
        IN df[last][column]]

(***************************************************************************)
(* add_tags(chrom, umis, genes, transcripts, args)                         *)
(* bam is the sequence of alignments of the chromosome.                    *)
(***************************************************************************)
\* faulty variant: writes every alignment, tagged or not
AddTagsEveryRecord(bam, umi_dict, gene_dict, transcript_dict) ==
    [k \in DOMAIN bam |->
        LET id == bam[k].query_name
        IN [query_name |-> id,
            CB |-> bam[k].CB,
            UB |-> IF id \in DOMAIN umi_dict THEN umi_dict[id] ELSE <<>>,
            GN |-> IF id \in DOMAIN gene_dict THEN gene_dict[id] ELSE "",
            TR |-> IF id \in DOMAIN transcript_dict
                   THEN transcript_dict[id] ELSE ""]]

AddTags(bam, umi_dict, gene_dict, transcript_dict) ==
    LET tagged == SelectSeq(bam,
                      LAMBDA align : /\ align.query_name \in DOMAIN umi_dict
                                     /\ align.query_name \in DOMAIN gene_dict)
    IN [k \in DOMAIN tagged |->
          [query_name |-> tagged[k].query_name,
           CB |-> tagged[k].CB,
           UB |-> umi_dict[tagged[k].query_name],
           GN |-> gene_dict[tagged[k].query_name],
           TR |-> transcript_dict[tagged[k].query_name]]]

ReadTags(bam_out) ==
    [k \in DOMAIN bam_out |->
        <<bam_out[k].query_name, bam_out[k].GN, bam_out[k].TR,
          bam_out[k].CB, bam_out[k].UB>>]

(***************************************************************************)
(* State of one count map going through cluster().                         *)
(*   umis, counts   counts_dict of one group: key order and values         *)
(*   threshold      edit distance threshold handed to cluster()            *)
(*   adj_list       result of get_adj_list_directional                     *)
(*   clusters       result of get_connected_components_adjacency           *)
(*   final_umis     result of group_directional / cluster                  *)
(*   umi_map        result of create_map_to_correct_umi                    *)
(*   prev_map       umi_map of the previous run on the same count map      *)
(*   input_kind     "reads": counts of raw UMIs; "corrected": counts of    *)
(*                  the column correct_umis returned                       *)
(*   run            number of the current run on the same input            *)
(*   pc             the function that has last returned                    *)
(*                                                                         *)
(* State of process_records.                                               *)
(*   gene_assigns, transcript_assigns, tags, bam   the input tables        *)
(*   cell_gene_max_reads, gene_cell_per_chunk      cap and batch size      *)
(*   df             the joined frame of lines 427-435                      *)
(*   records        the reads retained by the loop of lines 440-464        *)
(*   func_args      the frames handed to the pool                          *)
(*   started        number of batches the workers have taken               *)
(*   finished       results of the batches the workers have completed      *)
(*   collected      the list line 385 is building from p.imap              *)
(*   pool           state of the multiprocessing pool                      *)
(*   interrupted    where a KeyboardInterrupt reached launch_pool          *)
(*   results        the value launch_pool returned                         *)
(*   umi_dict, gene_dict, transcript_dict   the lookups of lines 499-504   *)
(*   bam_out, read_tags   the two outputs                                  *)
(*   prev_umi_dict  umi_dict of the previous run on the same records       *)
(*   redispatch     what differs from the run before: "none" (first run),  *)
(*                  "partition" or "schedule"                              *)
(*   error          the exception that ended process_records               *)
(*   rpc            position in process_records                            *)
(*                                                                         *)
(* State of one call of create_region_name.                                *)
(*   region_read, region_interval   the read and args.ref_interval         *)
(*   region_midpoint, region_start, region_end   midpoint, interval_start  *)
(*                  and interval_end of the function                       *)
(*   region_gene    the returned label                                     *)
(*   region_pc      position in create_region_name                         *)
(***************************************************************************)
VARIABLES umis, counts, threshold, adj_list, clusters, final_umis, umi_map,
          prev_map, input_kind, run, pc,
          gene_assigns, transcript_assigns, tags, bam,
          cell_gene_max_reads, gene_cell_per_chunk,
          df, records, func_args, started, finished, collected, pool,
          interrupted, results, umi_dict, gene_dict, transcript_dict,
          bam_out, read_tags, prev_umi_dict, redispatch, error, rpc,
          region_read, region_interval, region_midpoint, region_start,
          region_end, region_gene, region_pc

clusterVars == <<umis, counts, threshold, adj_list, clusters, final_umis,
                 umi_map, prev_map, input_kind, pc>>

inputVars == <<gene_assigns, transcript_assigns, tags, bam,
               cell_gene_max_reads>>

poolVars == <<started, finished, collected, pool, interrupted>>

outputVars == <<umi_dict, gene_dict, transcript_dict, bam_out, read_tags>>

recordVars == <<inputVars, gene_cell_per_chunk, df, records, func_args,
                poolVars, results, outputVars, prev_umi_dict, redispatch,
                error, rpc>>

regionVars == <<region_read, region_interval, region_midpoint, region_start,
                region_end, region_gene, region_pc>>

vars == <<clusterVars, run, recordVars, regionVars>>

\* number of times the same input is run
MaxRuns == 2

\* largest value of --cell_gene_max_reads
MaxCap == 2

\* line 475: gene_cell_per_chunk = 50, the number of group keys per batch
GeneCellPerChunk == 50

\* number of worker processes (--threads)
Threads == 2

CountMaps ==
    UNION {[S -> 1..MaxCount] : S \in (SUBSET UmiUniverse) \ {{}}}

\* no count map is being clustered
ClusterIdle ==
    /\ umis = <<>>
    /\ counts = <<>>
    /\ threshold = ClusterThreshold
    /\ adj_list = <<>>
    /\ clusters = <<>>
    /\ final_umis = <<>>
    /\ umi_map = <<>>
    /\ prev_map = <<>>
    /\ input_kind = "reads"
    /\ pc = "idle"

\* create_region_name is not being called
RegionIdle ==
    /\ region_read = [chr |-> "", start |-> 0, end |-> 0]
    /\ region_interval = RefInterval
    /\ region_midpoint = 0
    /\ region_start = 0
    /\ region_end = 0
    /\ region_gene = ""
    /\ region_pc = "idle"

\* process_records has not read any table
RecordsIdle ==
    /\ gene_assigns = <<>>
    /\ transcript_assigns = [type |-> "DataFrame", ref_id |-> <<>>]
    /\ tags = <<>>
    /\ bam = <<>>
    /\ cell_gene_max_reads = 1
    /\ gene_cell_per_chunk = GeneCellPerChunk
    /\ df = <<>>
    /\ records = <<>>
    /\ func_args = <<>>
    /\ started = 0
    /\ finished = <<>>
    /\ collected = <<>>
    /\ pool = "none"
    /\ interrupted = "no"
    /\ results = <<>>
    /\ umi_dict = <<>>
    /\ gene_dict = <<>>
    /\ transcript_dict = <<>>
    /\ bam_out = <<>>
    /\ read_tags = <<>>
    /\ prev_umi_dict = <<>>
    /\ redispatch = "none"
    /\ error = "none"
    /\ rpc = "idle"

Init ==
    /\ counts \in CountMaps
    /\ umis \in ValueCountOrders(counts)
    /\ threshold \in Thresholds
    /\ adj_list = <<>>
    /\ clusters = <<>>
    /\ final_umis = <<>>
    /\ umi_map = <<>>
    /\ prev_map = <<>>
    /\ input_kind = "reads"
    /\ run = 1
    /\ pc = "counts"
    /\ RecordsIdle
    /\ RegionIdle

\* cluster(), line 242: adj_list = get_adj_list_directional(...)
BuildAdjList ==
    /\ pc = "counts"
    /\ adj_list' = GetAdjListDirectional(umis, counts, threshold)
    /\ pc' = "adj_list"
    /\ UNCHANGED <<umis, counts, threshold, clusters, final_umis, umi_map,
                   prev_map, input_kind, run, recordVars, regionVars>>

\* cluster(), line 244: clusters = get_connected_components_adjacency(...)
FindComponents ==
    /\ pc = "adj_list"
    /\ clusters' \in GetConnectedComponentsAdjacency(umis, adj_list, counts)
    /\ pc' = "clusters"
    /\ UNCHANGED <<umis, counts, threshold, adj_list, final_umis, umi_map,
                   prev_map, input_kind, run, recordVars, regionVars>>

\* cluster(), line 247: final_umis = [list(x) for x in group_directional(...)]
GroupClusters ==
    /\ pc = "clusters"
    /\ final_umis' \in GroupDirectional(clusters, adj_list, counts)
    /\ pc' = "final_umis"
    /\ UNCHANGED <<umis, counts, threshold, adj_list, clusters, umi_map,
                   prev_map, input_kind, run, recordVars, regionVars>>

\* correct_umis(), line 264: umi_map = create_map_to_correct_umi(cluster(...))
BuildMap ==
    /\ pc = "final_umis"
    /\ umi_map' = CreateMapToCorrectUmi(final_umis)
    /\ pc' = "umi_map"
    /\ UNCHANGED <<umis, counts, threshold, adj_list, clusters, final_umis,
                   prev_map, input_kind, run, recordVars, regionVars>>

\* correct_umis is run again on the same UMI counts (a repeated run of the
\* program on the same reads): value_counts may present equal counts in
\* another order, and the sets are enumerated afresh.
RunAgain ==
    /\ pc = "umi_map"
    /\ run < MaxRuns
    /\ run' = run + 1
    /\ prev_map' = umi_map
    /\ umis' \in ValueCountOrders(counts)
    /\ adj_list' = <<>>
    /\ clusters' = <<>>
    /\ final_umis' = <<>>
    /\ umi_map' = <<>>
    /\ pc' = "counts"
    /\ UNCHANGED <<counts, threshold, input_kind, recordVars, regionVars>>

\* correct_umis is called on the column it returned: the counts are those
\* of the corrected UMIs, and the run starts afresh on that input.
CorrectOutput ==
    /\ pc = "umi_map"
    /\ input_kind = "reads"
    /\ input_kind' = "corrected"
    /\ counts' = ReplacedCounts(counts, umi_map)
    /\ umis' \in ValueCountOrders(counts')
    /\ run' = 1
    /\ prev_map' = <<>>
    /\ adj_list' = <<>>
    /\ clusters' = <<>>
    /\ final_umis' = <<>>
    /\ umi_map' = <<>>
    /\ pc' = "counts"
    /\ UNCHANGED <<threshold, recordVars, regionVars>>

Next ==
    \/ BuildAdjList
    \/ FindComponents
    \/ GroupClusters
    \/ BuildMap
    \/ RunAgain
    \/ CorrectOutput

Spec == Init /\ [][Next]_vars

(***************************************************************************)
(* process_records(tag_file, args): the inputs.                            *)
(***************************************************************************)
\* read identifiers, in the order of the rows of gene_assigns
ReadOrder == <<"r1", "r2", "r3">>

\* (gene, CB) of a read: an annotated gene in two cells, and reads without
\* gene assignment ("NA") in one of these cells
GeneCellChoices == {<<"G1", "AC">>, <<"G1", "GT">>, <<"NA", "AC">>}

\* raw UMIs (UR) of the reads: one edit apart
ReadUmis == {UMI_AAAAA, UMI_AAAAT}

\* alignment coordinates of the reads: r1 and r2 share a 1000 bp window
ReadPosition ==
    [id \in Range(ReadOrder) |->
        CASE id = "r1" -> [start |-> 1400, end |-> 1600]
          [] id = "r2" -> [start |-> 1450, end |-> 1700]
          [] OTHER -> [start |-> 2300, end |-> 2600]]

InitRecords ==
    /\ ClusterIdle
    /\ RegionIdle
    /\ run = 1
    /\ \E n \in 0..Len(ReadOrder) :
         \E genes \in [1..n -> GeneCellChoices] :
            \E urs \in [1..n -> ReadUmis] :
               \E with_transcript \in SUBSET {ReadOrder[k] : k \in 1..n} :
                  /\ gene_assigns =
                        [k \in 1..n |-> [read_id |-> ReadOrder[k],
                                         gene |-> genes[k][1]]]
                  /\ tags =
                        [id \in {ReadOrder[k] : k \in 1..n} |->
                            LET k == CHOOSE j \in 1..n : ReadOrder[j] = id
                            IN [CB |-> genes[k][2], UR |-> urs[k],
                                chr |-> "chr1",
                                start |-> ReadPosition[id].start,
                                end |-> ReadPosition[id].end]]
                  /\ transcript_assigns =
                        [type |-> "DataFrame",
                         ref_id |-> [id \in with_transcript |-> "T1"]]
                  /\ bam = [k \in 1..n |-> [query_name |-> ReadOrder[k],
                                            CB |-> genes[k][2]]]
    /\ cell_gene_max_reads \in 1..MaxCap
    /\ gene_cell_per_chunk = GeneCellPerChunk
    /\ df = <<>>
    /\ records = <<>>
    /\ func_args = <<>>
    /\ started = 0
    /\ finished = <<>>
    /\ collected = <<>>
    /\ pool = "none"
    /\ interrupted = "no"
    /\ results = <<>>
    /\ umi_dict = <<>>
    /\ gene_dict = <<>>
    /\ transcript_dict = <<>>
    /\ bam_out = <<>>
    /\ read_tags = <<>>
    /\ prev_umi_dict = <<>>
    /\ redispatch = "none"
    /\ error = "none"
    /\ rpc = "start"

(***************************************************************************)
(* process_records(tag_file, args): the steps.                             *)
(***************************************************************************)
\* lines 413-469: read and join the tables, loop over the joined rows
CollectRecords ==
    /\ rpc = "start"
    /\ df' = MergeTables(gene_assigns, transcript_assigns.ref_id, tags)
    /\ records' = RecordsLoop(df', transcript_assigns, <<>>, <<>>,
                              cell_gene_max_reads)
    /\ rpc' = "records"
    /\ UNCHANGED <<clusterVars, regionVars, run, inputVars,
                   gene_cell_per_chunk, func_args, poolVars, results,
                   outputVars, prev_umi_dict, redispatch, error>>

\* lines 472-481: index by gene_cell, list(set(df.index)) in the order the
\* set happens to enumerate its keys, chunks, one frame per chunk
BuildFuncArgs ==
    /\ rpc = "records"
    /\ LET frame == WithGeneCell(records)
           keys == {frame[k].gene_cell : k \in DOMAIN frame}
       IN \E gene_cell_unique \in Orders(keys) :
             func_args' = FuncArgs(frame, gene_cell_unique, gene_cell_per_chunk)
    /\ rpc' = "func_args"
    /\ UNCHANGED <<clusterVars, regionVars, run, inputVars,
                   gene_cell_per_chunk, df, records, poolVars, results,
                   outputVars, prev_umi_dict, redispatch, error>>

\* launch_pool, lines 383-385: the pool is created and p.imap submits the
\* frames
OpenPool ==
    /\ rpc = "func_args"
    /\ pool' = "open"
    /\ started' = 0
    /\ finished' = <<>>
    /\ collected' = <<>>
    /\ rpc' = "imap"
    /\ UNCHANGED <<clusterVars, regionVars, run, inputVars,
                   gene_cell_per_chunk, df, records, func_args, interrupted,
                   results, outputVars, prev_umi_dict, redispatch, error>>

Running == (1..started) \ DOMAIN finished

\* an idle worker takes the next frame of the task queue
WorkerStart ==
    /\ pool = "open"
    /\ started < Len(func_args)
    /\ Cardinality(Running) < Threads
    /\ started' = started + 1
    /\ UNCHANGED <<clusterVars, regionVars, run, inputVars,
                   gene_cell_per_chunk, df, records, func_args, finished,
                   collected, pool, interrupted, results, outputVars,
                   prev_umi_dict, redispatch, error, rpc>>

\* a worker returns run_groupby(frame) for the frame it took
WorkerFinish ==
    /\ pool = "open"
    /\ \E i \in Running :
          \E frame \in RunGroupby(func_args[i]) :
             finished' = [j \in DOMAIN finished \cup {i} |->
                             IF j = i THEN frame ELSE finished[j]]
    /\ UNCHANGED <<clusterVars, regionVars, run, inputVars,
                   gene_cell_per_chunk, df, records, func_args, started,
                   collected, pool, interrupted, results, outputVars,
                   prev_umi_dict, redispatch, error, rpc>>

\* line 385: list() takes the next result from p.imap, in submission order
CollectResult ==
    /\ rpc = "imap"
    /\ Len(collected) + 1 \in DOMAIN finished
    /\ collected' = Append(collected, finished[Len(collected) + 1])
    /\ UNCHANGED <<clusterVars, regionVars, run, inputVars,
                   gene_cell_per_chunk, df, records, func_args, started,
                   finished, pool, interrupted, results, outputVars,
                   prev_umi_dict, redispatch, error, rpc>>

\* line 385 completes: p.imap is exhausted and `results` is bound
BindResults ==
    /\ rpc = "imap"
    /\ Len(collected) = Len(func_args)
    /\ rpc' = "close"
    /\ UNCHANGED <<clusterVars, regionVars, run, inputVars,
                   gene_cell_per_chunk, df, records, func_args, poolVars,
                   results, outputVars, prev_umi_dict, redispatch, error>>

\* lines 387-391: p.close(), p.join(), return results
ClosePool ==
    /\ rpc = "close"
    /\ pool' = "closed"
    /\ results' = LaunchPoolReturn(TRUE, collected).results
    /\ rpc' = "results"
    /\ UNCHANGED <<clusterVars, regionVars, run, inputVars,
                   gene_cell_per_chunk, df, records, func_args, started,
                   finished, collected, interrupted, outputVars,
                   prev_umi_dict, redispatch, error>>

\* lines 389-391: a KeyboardInterrupt inside the try block; p.terminate()
\* stops the workers and `return results` is evaluated
Interrupt ==
    /\ rpc \in {"imap", "close"}
    /\ interrupted' = IF rpc = "imap" THEN "collecting" ELSE "joining"
    /\ pool' = "terminated"
    /\ LET ret == LaunchPoolReturn(rpc = "close", collected)
       IN /\ results' = ret.results
          /\ error' = ret.error
          /\ rpc' = IF ret.error = "none" THEN "results" ELSE "failed"
    /\ UNCHANGED <<clusterVars, regionVars, run, inputVars,
                   gene_cell_per_chunk, df, records, func_args, started,
                   finished, collected, outputVars, prev_umi_dict, redispatch>>

\* lines 484-504: concat or the empty frame, then the three lookups;
\* to_dict()[column] raises KeyError for a column the frame does not have
BuildLookups ==
    /\ rpc = "results"
    /\ LET frame == Concat(results)
           columns == MergedColumns(results)
       IN IF {"umi_corr", "gene", "transcript"} \subseteq columns
          THEN /\ umi_dict' = ToDict(frame, "umi_corr")
               /\ gene_dict' = ToDict(frame, "gene")
               /\ transcript_dict' = ToDict(frame, "transcript")
               /\ rpc' = "lookups"
               /\ UNCHANGED error
          ELSE /\ error' = "KeyError"
               /\ rpc' = "failed"
               /\ UNCHANGED <<umi_dict, gene_dict, transcript_dict>>
    /\ UNCHANGED <<clusterVars, regionVars, run, inputVars,
                   gene_cell_per_chunk, df, records, func_args, poolVars,
                   results, bam_out, read_tags, prev_umi_dict, redispatch>>

\* lines 507-508: add_tags writes the tagged alignments, to_csv the table
WriteOutputs ==
    /\ rpc = "lookups"
    /\ bam_out' = AddTags(bam, umi_dict, gene_dict, transcript_dict)
    /\ read_tags' = ReadTags(bam_out')
    /\ rpc' = "written"
    /\ UNCHANGED <<clusterVars, regionVars, run, inputVars,
                   gene_cell_per_chunk, df, records, func_args, poolVars,
                   results, umi_dict, gene_dict, transcript_dict,
                   prev_umi_dict, redispatch, error>>

\* process_records is run again on the same retained reads: the group keys
\* are enumerated afresh (line 474), partitioned with the same batch size
\* and dispatched again
DispatchAgain ==
    /\ rpc = "written"
    /\ run < MaxRuns
    /\ run' = run + 1
    /\ prev_umi_dict' = umi_dict
    /\ redispatch' = "partition"
    /\ func_args' = <<>>
    /\ started' = 0
    /\ finished' = <<>>
    /\ collected' = <<>>
    /\ pool' = "none"
    /\ interrupted' = "no"
    /\ results' = <<>>
    /\ umi_dict' = <<>>
    /\ gene_dict' = <<>>
    /\ transcript_dict' = <<>>
    /\ bam_out' = <<>>
    /\ read_tags' = <<>>
    /\ rpc' = "records"
    /\ UNCHANGED <<clusterVars, regionVars, inputVars, gene_cell_per_chunk,
                   df, records, error>>

\* the same batches are handed to a new pool: launch_pool runs again on the
\* func_args of the run before, with the workers taking and completing the
\* batches in any order
ScheduleAgain ==
    /\ rpc = "written"
    /\ run < MaxRuns
    /\ run' = run + 1
    /\ prev_umi_dict' = umi_dict
    /\ redispatch' = "schedule"
    /\ started' = 0
    /\ finished' = <<>>
    /\ collected' = <<>>
    /\ pool' = "none"
    /\ interrupted' = "no"
    /\ results' = <<>>
    /\ umi_dict' = <<>>
    /\ gene_dict' = <<>>
    /\ transcript_dict' = <<>>
    /\ bam_out' = <<>>
    /\ read_tags' = <<>>
    /\ rpc' = "func_args"
    /\ UNCHANGED <<clusterVars, regionVars, inputVars, gene_cell_per_chunk,
                   df, records, func_args, error>>

NextRecords ==
    \/ CollectRecords
    \/ BuildFuncArgs
    \/ OpenPool
    \/ WorkerStart
    \/ WorkerFinish
    \/ CollectResult
    \/ BindResults
    \/ ClosePool
    \/ Interrupt
    \/ BuildLookups
    \/ WriteOutputs
    \/ DispatchAgain
    \/ ScheduleAgain

SpecRecords == InitRecords /\ [][NextRecords]_vars

(***************************************************************************)
(* create_region_name(read, args) on one read without a gene assignment.   *)
(***************************************************************************)
\* largest small alignment position tried
MaxPos == 6

\* alignment positions: the small ones, and some around the default interval
RegionPositions == (0..MaxPos) \cup {900, 1000, 1100, 1400, 1600}

\* values of --ref_interval
RefIntervals == {2, 3, RefInterval}

InitRegion ==
    /\ ClusterIdle
    /\ run = 1
    /\ RecordsIdle
    /\ \E start_pos, end_pos \in RegionPositions :
          /\ start_pos <= end_pos
          /\ region_read = [chr |-> "chr1", start |-> start_pos, end |-> end_pos]
    /\ region_interval \in RefIntervals
    /\ region_midpoint = 0
    /\ region_start = 0
    /\ region_end = 0
    /\ region_gene = ""
    /\ region_pc = "read"

\* line 349: midpoint = int((start_pos + end_pos) / 2)
FindMidpoint ==
    /\ region_pc = "read"
    /\ region_midpoint' = Midpoint(region_read)
    /\ region_pc' = "midpoint"
    /\ UNCHANGED <<clusterVars, run, recordVars, region_read, region_interval,
                   region_start, region_end, region_gene>>

\* lines 352-353: interval_start and interval_end
PickInterval ==
    /\ region_pc = "midpoint"
    /\ region_start' = IntervalStart(region_midpoint, region_interval)
    /\ region_end' = IntervalEnd(region_midpoint, region_interval)
    /\ region_pc' = "interval"
    /\ UNCHANGED <<clusterVars, run, recordVars, region_read, region_interval,
                   region_midpoint, region_gene>>

\* lines 356-357: the label is formatted and returned
ReturnGene ==
    /\ region_pc = "interval"
    /\ region_gene' = RegionLabel(region_read.chr, region_start, region_end)
    /\ region_pc' = "gene"
    /\ UNCHANGED <<clusterVars, run, recordVars, region_read, region_interval,
                   region_midpoint, region_start, region_end>>

NextRegion ==
    \/ FindMidpoint
    \/ PickInterval
    \/ ReturnGene

SpecRegion == InitRegion /\ [][NextRegion]_vars

(***************************************************************************)
(* Properties of cluster() and create_map_to_correct_umi.                  *)
(***************************************************************************)
\* number of positions of the list xs that hold x
Occurrences(xs, x) == Cardinality({k \in DOMAIN xs : xs[k] = x})

\* number of positions of a list of lists that hold x
OccurrencesIn(lists, x) ==
    Cardinality({p \in (DOMAIN lists) \X (1..Cardinality(UmiUniverse)) :
                    /\ p[2] \in DOMAIN lists[p[1]]
                    /\ lists[p[1]][p[2]] = x})

Clustered == pc \in {"final_umis", "umi_map"}

\* C1: the clusters returned by cluster() partition the UMIs of the count
\* map: every UMI of the map is at exactly one position of exactly one
\* cluster, and no cluster holds anything that is not a UMI of the map.
C1_ClustersPartitionUmis ==
    Clustered =>
        /\ \A u \in DOMAIN counts : OccurrencesIn(final_umis, u) = 1
        /\ UNION {Range(final_umis[i]) : i \in DOMAIN final_umis} = DOMAIN counts

\* two components share a UMI, and the clusters have been emitted
C1_Witness ==
    /\ Clustered
    /\ \E i, j \in DOMAIN clusters : i # j /\ clusters[i] \cap clusters[j] # {}
    /\ \E i \in DOMAIN final_umis : Len(final_umis[i]) >= 2

\* C2: every member of a cluster is mapped to the first element of that
\* cluster, which is a member of the cluster and has a count at least as
\* large as every other member; so a UMI is never corrected to a UMI of the
\* same cluster that has a strictly smaller count.
C2_RepresentativeIsTopOfCluster ==
    pc = "umi_map" =>
        \A i \in DOMAIN final_umis :
            /\ final_umis[i] # <<>>
            /\ \A y \in Range(final_umis[i]) :
                  /\ umi_map[y] = final_umis[i][1]
                  /\ umi_map[y] \in Range(final_umis[i])
                  /\ counts[umi_map[y]] >= counts[y]
            /\ \A a, b \in Range(final_umis[i]) :
                  counts[a] > counts[b] => umi_map[a] # b

\* a cluster holds UMIs of different counts and the map has been built
C2_Witness ==
    /\ pc = "umi_map"
    /\ \E i \in DOMAIN final_umis :
          \E a, b \in Range(final_umis[i]) :
              counts[a] > counts[b] /\ umi_map[b] = a

\* C3: a repeated run of cluster + create_map_to_correct_umi on the same
\* UMI count map yields the same correction map as the run before,
\* whatever order the component sets are enumerated in and whatever order
\* UMIs of equal count are presented in.
C3_RepeatedRunsAgree ==
    (pc = "umi_map" /\ run > 1) => umi_map = prev_map

\* C5: the adjacency structure has one entry for every UMI of the group,
\* and for every ordered pair (u, v) the edge u -> v is present exactly
\* once if u # v, edit_distance(u, v) <= threshold and
\* count(u) >= 2 * count(v) - 1, and absent otherwise.
C5_AdjacencyIsTheDirectionalRule ==
    pc # "counts" =>
        /\ DOMAIN adj_list = DOMAIN counts
        /\ \A u, v \in DOMAIN counts :
              Occurrences(adj_list[u], v) =
                  IF /\ u # v
                     /\ edit_distance(u, v) <= threshold
                     /\ counts[u] >= 2 * counts[v] - 1
                  THEN 1 ELSE 0

\* the adjacency structure has an isolated UMI, an edge in one direction
\* only, and a pair of UMIs in reach of the threshold without any edge
C5_Witness ==
    /\ pc # "counts"
    /\ \E u \in DOMAIN adj_list : adj_list[u] = <<>>
    /\ \E u, v \in DOMAIN adj_list :
          Occurrences(adj_list[u], v) = 1 /\ Occurrences(adj_list[v], u) = 0
    /\ \E u, v \in DOMAIN adj_list :
          /\ u # v
          /\ edit_distance(u, v) <= threshold
          /\ Occurrences(adj_list[u], v) = 0
          /\ Occurrences(adj_list[v], u) = 0

(***************************************************************************)
(* Properties of the components and of group_directional.                  *)
(***************************************************************************)
ComponentsFound == pc \in {"clusters", "final_umis", "umi_map"}

\* the UMIs of the components before component i
Earlier(i) == UNION {clusters[j] : j \in 1..(i - 1)}

\* largest count of a set of UMIs
TopCount(S) == CHOOSE c \in {counts[u] : u \in S} : \A u \in S : counts[u] <= c

\* the UMIs that directed edges of adj_list lead to from the UMIs of S
RECURSIVE ReachFrom(_)
ReachFrom(S) ==
    LET next == S \cup UNION {Range(adj_list[u]) : u \in S}
    IN IF next = S THEN S ELSE ReachFrom(next)

\* the nodes a component can have been started from: in no earlier
\* component, and the component is what directed edges reach from it
StartNodes(i) ==
    {s \in clusters[i] \ Earlier(i) : ReachFrom({s}) = clusters[i]}

\* C13 as stated: the components are pairwise disjoint, and each is started
\* from a highest-count UMI that is in no earlier component.
C13_ComponentsAreDisjoint ==
    ComponentsFound =>
        /\ \A i, j \in DOMAIN clusters : i # j => clusters[i] \cap clusters[j] = {}
        /\ \A i \in DOMAIN clusters :
              \E s \in clusters[i] \ Earlier(i) :
                  \A u \in (DOMAIN counts) \ Earlier(i) : counts[s] >= counts[u]

\* C13 amended: each component is started from a highest-count UMI that is
\* in no earlier component, so no component lies within the earlier ones,
\* and every UMI is in some component; members other than the start node
\* may belong to earlier components as well.
C13_StartNodeIsNewAndHighest ==
    ComponentsFound =>
        /\ \A i \in DOMAIN clusters :
              \E s \in clusters[i] \ Earlier(i) :
                  \A u \in (DOMAIN counts) \ Earlier(i) : counts[s] >= counts[u]
        /\ UNION {clusters[i] : i \in DOMAIN clusters} = DOMAIN counts

\* a later component shares a UMI with an earlier one
C13_Witness ==
    /\ ComponentsFound
    /\ \E i \in DOMAIN clusters :
          /\ clusters[i] \cap Earlier(i) # {}
          /\ clusters[i] \ Earlier(i) # {}

\* C14 as stated: an edge u -> v in either direction puts u and v in the
\* same component, so every component is closed under the edges taken as
\* undirected.
C14_ComponentsAreUndirected ==
    ComponentsFound =>
        \A i \in DOMAIN clusters :
            \A u \in clusters[i] : \A v \in DOMAIN counts :
                (Occurrences(adj_list[u], v) > 0 \/ Occurrences(adj_list[v], u) > 0)
                    => v \in clusters[i]

\* C14 amended: the traversal follows the edges in their direction only:
\* a component holds, with every UMI u, every v with an edge u -> v, and it
\* is exactly what directed edges reach from its start node.
C14_ComponentsFollowDirectedEdges ==
    ComponentsFound =>
        \A i \in DOMAIN clusters :
            /\ \A u \in clusters[i] : Range(adj_list[u]) \subseteq clusters[i]
            /\ StartNodes(i) # {}

\* a component reaches a UMI in two steps that its start node has no edge to
C14_Witness ==
    /\ ComponentsFound
    /\ \E i \in DOMAIN clusters :
          \E s \in StartNodes(i) :
              clusters[i] \ ({s} \cup Range(adj_list[s])) # {}

\* C15: the components come in descending order of the count of their
\* highest-count member, and the node a traversal starts from has the
\* highest count of its component.
C15_ComponentsByDescendingTopCount ==
    ComponentsFound =>
        /\ \A i, j \in DOMAIN clusters :
              i < j => TopCount(clusters[i]) >= TopCount(clusters[j])
        /\ \A i \in DOMAIN clusters :
              /\ StartNodes(i) # {}
              /\ \A s \in StartNodes(i) : counts[s] = TopCount(clusters[i])

\* components of different top count, the later one with several members
C15_Witness ==
    /\ ComponentsFound
    /\ \E i, j \in DOMAIN clusters :
          /\ i < j
          /\ TopCount(clusters[i]) > TopCount(clusters[j])
          /\ Cardinality(clusters[j]) >= 2

\* position of the first component that holds u
FirstComponent(u) ==
    CHOOSE i \in DOMAIN clusters :
        u \in clusters[i] /\ \A j \in 1..(i - 1) : u \notin clusters[j]

\* C16 as stated: a UMI that lies in several components is emitted only in
\* the cluster of the earliest of them, and that component is the one whose
\* top member has the higher count: every later component that holds the
\* UMI has a top member of strictly lower count; later components emit
\* only their members not yet observed, in descending order of count.
C16_ContestedUmiGoesToHigherTopComponent ==
    Clustered =>
        /\ Len(final_umis) = Len(clusters)
        /\ \A u \in DOMAIN counts :
              /\ u \in Range(final_umis[FirstComponent(u)])
              /\ \A j \in DOMAIN clusters :
                    j # FirstComponent(u) =>
                        /\ u \notin Range(final_umis[j])
                        /\ u \in clusters[j] =>
                              TopCount(clusters[FirstComponent(u)])
                                  > TopCount(clusters[j])
        /\ \A i \in DOMAIN final_umis :
              /\ Range(final_umis[i]) = clusters[i] \ Earlier(i)
              /\ \A k, l \in DOMAIN final_umis[i] :
                    k < l => counts[final_umis[i][k]] >= counts[final_umis[i][l]]

\* C16 amended: a UMI that lies in several components is emitted only in
\* the cluster of the earliest of them, whose top member has a count at
\* least as high as the top member of every later component that holds the
\* UMI (the counts may be equal, and then the order of the components
\* decides); every cluster is its component without the UMIs of earlier
\* components, in descending order of count.
C16_ContestedUmiGoesToEarliestComponent ==
    Clustered =>
        /\ Len(final_umis) = Len(clusters)
        /\ \A u \in DOMAIN counts :
              /\ u \in Range(final_umis[FirstComponent(u)])
              /\ \A j \in DOMAIN clusters :
                    j # FirstComponent(u) =>
                        /\ u \notin Range(final_umis[j])
                        /\ u \in clusters[j] =>
                              TopCount(clusters[FirstComponent(u)])
                                  >= TopCount(clusters[j])
        /\ \A i \in DOMAIN final_umis :
              /\ Range(final_umis[i]) = clusters[i] \ Earlier(i)
              /\ \A k, l \in DOMAIN final_umis[i] :
                    k < l => counts[final_umis[i][k]] >= counts[final_umis[i][l]]

\* a UMI lies in two components whose top members differ in count, and the
\* later component emits a cluster without it
C16_Witness ==
    /\ Clustered
    /\ \E i, j \in DOMAIN clusters :
          /\ i < j
          /\ clusters[i] \cap clusters[j] # {}
          /\ TopCount(clusters[i]) > TopCount(clusters[j])
          /\ Len(final_umis[j]) < Cardinality(clusters[j])

\* C18: every cluster emitted by group_directional has at least one member,
\* so create_map_to_correct_umi finds a first element in every cluster and
\* the map covers every UMI.
C18_ClustersAreNonEmpty ==
    /\ Clustered => \A i \in DOMAIN final_umis : Len(final_umis[i]) >= 1
    /\ pc = "umi_map" => DOMAIN umi_map = DOMAIN counts

\* a component of several members, some of them observed before, has
\* emitted its cluster and the map is built
C18_Witness ==
    /\ pc = "umi_map"
    /\ \E i \in DOMAIN clusters :
          /\ Cardinality(clusters[i]) >= 2
          /\ clusters[i] \cap Earlier(i) # {}
          /\ Len(final_umis[i]) >= 1

\* C19 as stated: the map is idempotent (every representative maps to
\* itself, every value is a key, map(map(u)) = map(u) for every raw UMI),
\* and correct_umis applied to its own output changes nothing: the map built
\* from the corrected column sends every UMI to itself.
C19_CorrectingTwiceChangesNothing ==
    pc = "umi_map" =>
        /\ DOMAIN umi_map = DOMAIN counts
        /\ \A u \in DOMAIN umi_map :
              /\ umi_map[u] \in DOMAIN umi_map
              /\ umi_map[umi_map[u]] = umi_map[u]
        /\ input_kind = "corrected" => \A u \in DOMAIN umi_map : umi_map[u] = u

\* C19 amended: the map is idempotent: it has every raw UMI as a key, the
\* first member of every cluster maps to itself, every value is a key and
\* map(map(u)) = map(u), so replacing with the same map again changes
\* nothing.
C19_MapIsIdempotent ==
    pc = "umi_map" =>
        /\ DOMAIN umi_map = DOMAIN counts
        /\ \A i \in DOMAIN final_umis :
              /\ final_umis[i][1] \in DOMAIN umi_map
              /\ umi_map[final_umis[i][1]] = final_umis[i][1]
        /\ \A u \in DOMAIN umi_map :
              /\ umi_map[u] \in DOMAIN umi_map
              /\ umi_map[umi_map[u]] = umi_map[u]

\* the map built from a corrected column sends a UMI to another one
C19_Witness ==
    /\ pc = "umi_map"
    /\ input_kind = "corrected"
    /\ \E u \in DOMAIN umi_map : umi_map[u] # u

\* C21: every member of a cluster emitted by cluster() is reachable from
\* the first member of the cluster, its representative, along directed
\* edges of the adjacency structure, the path possibly passing through UMIs
\* of other clusters; so the map corrects no UMI to a representative that
\* has no directed path to it.
C21_MembersReachableFromRepresentative ==
    /\ Clustered =>
          \A i \in DOMAIN final_umis :
              Range(final_umis[i]) \subseteq ReachFrom({final_umis[i][1]})
    /\ pc = "umi_map" =>
          \A u \in DOMAIN umi_map : u \in ReachFrom({umi_map[u]})

\* a UMI is corrected to a representative that has no edge to it, only a
\* path of several edges
C21_Witness ==
    /\ pc = "umi_map"
    /\ \E u \in DOMAIN umi_map :
          /\ umi_map[u] # u
          /\ u \notin Range(adj_list[umi_map[u]])

(***************************************************************************)
(* Properties of process_records.                                          *)
(***************************************************************************)
ReadIdsOf(rows) == [k \in DOMAIN rows |-> rows[k].read_id]

\* (cell barcode, gene) groups of the joined input
GroupsOf(frame) == {<<frame[k].CB, GeneOfRow(frame[k])>> : k \in DOMAIN frame}

\* reads of a group in the joined input, in input order
GroupReads(frame, g) ==
    ReadIdsOf(SelectSeq(frame, LAMBDA row : <<row.CB, GeneOfRow(row)>> = g))

\* reads of a group retained for clustering, in the order retained
RetainedReads(recs, g) ==
    ReadIdsOf(SelectSeq(recs, LAMBDA rec : <<rec.bc, rec.gene>> = g))

\* C4: of every (cell barcode, gene) group of the joined input, the reads
\* retained for clustering are the first cell_gene_max_reads reads of the
\* group in input order when the group has more reads than that, and all
\* the reads of the group otherwise.
C4_CapKeepsFirstReadsOfGroup ==
    rpc \notin {"idle", "start"} =>
        /\ \A g \in GroupsOf(df) :
              LET members == GroupReads(df, g)
              IN RetainedReads(records, g) =
                    SubSeq(members, 1, Min2(Len(members), cell_gene_max_reads))
        /\ \A k \in DOMAIN records :
              <<records[k].bc, records[k].gene>> \in GroupsOf(df)

\* a group exceeds the cap while a read of another group, met later, is kept
C4_Witness ==
    /\ rpc = "records"
    /\ \E g \in GroupsOf(df) :
          /\ Len(GroupReads(df, g)) > cell_gene_max_reads
          /\ Len(RetainedReads(records, g)) = cell_gene_max_reads
    /\ Len(records) > cell_gene_max_reads
    /\ Len(records) < Len(df)

\* C6: partitioning the group keys of the same retained reads again and
\* dispatching the batches yields the same read_id -> corrected UMI lookup
\* as the dispatch before, for every batch size the program partitions
\* with (line 475 fixes it at 50).
C6_BatchSizeInvariance ==
    (run > 1 /\ redispatch = "partition" /\ rpc \in {"lookups", "written"})
        => umi_dict = prev_umi_dict

\* count map of the raw UMIs of the group a retained read belongs to
GroupCounts(rec) ==
    ValueCounts(
        LET rows == SelectSeq(records,
                        LAMBDA r : r.gene = rec.gene /\ r.bc = rec.bc)
        IN [k \in DOMAIN rows |-> rows[k].umi_uncorr])

\* C7: the corrected UMI of a read is a function of the raw UMI of the read
\* and of the raw-UMI multiset of its own (gene, cell barcode) group: two
\* reads with the same raw UMI whose groups have the same multiset get the
\* same corrected UMI, in this dispatch and, whatever groups shared their
\* batches, in the dispatch before.
C7_CorrectionDependsOnOwnGroupOnly ==
    rpc \in {"lookups", "written"} =>
        \A i, j \in DOMAIN records :
            (/\ records[i].umi_uncorr = records[j].umi_uncorr
             /\ GroupCounts(records[i]) = GroupCounts(records[j]))
            => /\ umi_dict[records[i].read_id] = umi_dict[records[j].read_id]
               /\ run > 1 =>
                    umi_dict[records[i].read_id] = prev_umi_dict[records[j].read_id]

\* C8: after a KeyboardInterrupt that reaches launch_pool while it collects
\* the batch results, the workers are terminated, launch_pool hands no
\* result list to process_records, no lookup is built and neither output
\* is written.
C8_InterruptAbortsDispatch ==
    interrupted = "collecting" =>
        /\ pool = "terminated"
        /\ rpc = "failed"
        /\ results = <<>>
        /\ umi_dict = <<>> /\ gene_dict = <<>> /\ transcript_dict = <<>>
        /\ bam_out = <<>> /\ read_tags = <<>>

\* the interrupt came when a batch result had been collected and line 385
\* had not yet bound the result list
C8_Witness ==
    /\ interrupted = "collecting"
    /\ collected # <<>>
    /\ rpc = "failed"

\* C9: when the joined annotation table is empty, process_records goes
\* through the empty-result branch and raises nothing.
C9_EmptyTableIsNotAnError ==
    (df = <<>> /\ rpc \notin {"idle", "start"} /\ interrupted = "no")
        => error = "none"

\* number of reads before position k of gene_assigns that have the cell
\* barcode and gene of the read at position k
EarlierOfGroup(k) ==
    LET Group(j) ==
            LET id == gene_assigns[j].read_id
            IN <<tags[id].CB,
                 GeneOfRow([gene |-> gene_assigns[j].gene, chr |-> tags[id].chr,
                            start |-> tags[id].start, end |-> tags[id].end])>>
    IN Cardinality({j \in 1..(k - 1) : Group(j) = Group(k)})

\* C10: a read with a gene assignment and a barcode/UMI row but without a
\* row in the transcript table is retained (unless the cap of its group is
\* reached) with the transcript "-".
C10_MissingTranscriptGetsSentinel ==
    rpc \notin {"idle", "start"} =>
        \A k \in DOMAIN gene_assigns :
            LET id == gene_assigns[k].read_id IN
            (/\ id \in DOMAIN tags
             /\ id \notin DOMAIN transcript_assigns.ref_id
             /\ EarlierOfGroup(k) < cell_gene_max_reads)
            => \E i \in DOMAIN records :
                  records[i].read_id = id /\ records[i].transcript = "-"

\* position of the row k of the joined input among the rows of its group
RankInGroup(k) ==
    Cardinality({j \in 1..k :
        <<df[j].CB, GeneOfRow(df[j])>> = <<df[k].CB, GeneOfRow(df[k])>>})

\* C11: add_tags writes an alignment iff its read has a corrected UMI and a
\* gene in the lookups; the written alignments keep the order of the input,
\* carry UB, GN and TR of their read, and each gives one row of the
\* read-tag table; the other alignments are in neither output.
C11_TaggedIffUmiAndGene ==
    rpc = "written" =>
        /\ [k \in DOMAIN bam_out |-> bam_out[k].query_name] =
              SelectSeq([k \in DOMAIN bam |-> bam[k].query_name],
                        LAMBDA id : id \in DOMAIN umi_dict /\ id \in DOMAIN gene_dict)
        /\ \A k \in DOMAIN bam_out :
              /\ bam_out[k].UB = umi_dict[bam_out[k].query_name]
              /\ bam_out[k].GN = gene_dict[bam_out[k].query_name]
              /\ bam_out[k].TR = transcript_dict[bam_out[k].query_name]
        /\ Len(read_tags) = Len(bam_out)
        /\ \A k \in DOMAIN read_tags :
              read_tags[k] = <<bam_out[k].query_name, bam_out[k].GN,
                               bam_out[k].TR, bam_out[k].CB, bam_out[k].UB>>
        /\ error = "none"

\* one alignment is written and another is left out
C11_Witness ==
    /\ rpc = "written"
    /\ bam_out # <<>>
    /\ Len(bam_out) < Len(bam)

\* C20: a read beyond the cap of its group has no corrected UMI and no
\* gene in the lookups, and none of its alignments is in the tagged output
\* or in the read-tag table.
C20_CappedReadIsInNoOutput ==
    rpc \in {"lookups", "written"} =>
        \A k \in DOMAIN df :
            RankInGroup(k) > cell_gene_max_reads =>
                /\ df[k].read_id \notin DOMAIN umi_dict
                /\ df[k].read_id \notin DOMAIN gene_dict
                /\ \A i \in DOMAIN bam_out : bam_out[i].query_name # df[k].read_id
                /\ \A i \in DOMAIN read_tags : read_tags[i][1] # df[k].read_id

\* a read beyond the cap has an alignment in the input, and the outputs
\* are written with the reads of its group that were retained
C20_Witness ==
    /\ rpc = "written"
    /\ \E k \in DOMAIN df :
          /\ RankInGroup(k) > cell_gene_max_reads
          /\ \E i \in DOMAIN bam : bam[i].query_name = df[k].read_id
    /\ bam_out # <<>>

\* the pool hands every batch out once, in submission order, and keeps one
\* result per completed batch
EachBatchOnce ==
    /\ started <= Len(func_args)
    /\ DOMAIN finished \subseteq 1..started
    /\ Len(collected) <= Len(func_args)
    /\ \A i \in DOMAIN collected : i \in DOMAIN finished /\ collected[i] = finished[i]

\* launch_pool returned normally with one result per submitted batch, the
\* i-th being an outcome of run_groupby on the i-th batch
OneResultPerBatch ==
    (rpc = "results" /\ interrupted = "no") =>
        /\ Len(results) = Len(func_args)
        /\ \A i \in DOMAIN results : results[i] \in RunGroupby(func_args[i])

\* C17: whatever batches the workers take and in whatever order they
\* complete them, each batch is processed once, launch_pool returns one
\* result per submitted batch, and the merged read_id -> corrected UMI
\* lookup is the same as under the schedule of the run before.
C17_ScheduleIndependence ==
    /\ EachBatchOnce
    /\ OneResultPerBatch
    /\ (run > 1 /\ redispatch = "schedule" /\ rpc \in {"lookups", "written"})
          => umi_dict = prev_umi_dict

\* the label has the form <chromosome>_<interval_start>_<interval_end>,
\* the interval starts on the grid at or before the midpoint, and the
\* read of the example gets chr1_1000_2000
RegionLabelOnGrid ==
    region_pc = "gene" =>
        /\ region_gene = region_read.chr \o "_" \o ToString(region_start)
                            \o "_" \o ToString(region_end)
        /\ region_start % region_interval = 0
        /\ region_start <= region_midpoint
        /\ 2 * region_midpoint <= region_read.start + region_read.end
        /\ region_read.start + region_read.end < 2 * region_midpoint + 2
        /\ (/\ region_read = [chr |-> "chr1", start |-> 1400, end |-> 1600]
            /\ region_interval = 1000)
              => region_gene = "chr1_1000_2000"

\* C12: for a read without a gene, create_region_name returns
\* <chromosome>_<interval_start>_<interval_end> for one bin of the grid:
\* interval_end - interval_start is the interval size, interval_start is a
\* multiple of it and is at most the midpoint of the alignment; chr1 with
\* interval 1000 and a read from 1400 to 1600 gives chr1_1000_2000.
C12_RegionIsOneGridBin ==
    /\ RegionLabelOnGrid
    /\ region_pc = "gene" => region_end - region_start = region_interval

====
